---- MODULE Spec2Model ----
(***************************************************************************)
(* Daily Spanish vocabulary mailer: the history document (data_manager),   *)
(* the word selector, the feedback processor and the two entry points      *)
(* (main.py: a send cycle, check_feedback.py: a feedback-check cycle).     *)
(*                                                                         *)
(* Difficulty levels are counted in quarters: 1.0 is 4, 2.0 is 8, 5.0 is   *)
(* 20, an adjustment of 0.5 is 2.  Every such value is a binary fraction,  *)
(* so the float sums, differences, min and max of the code are exact and   *)
(* integer arithmetic on quarters is what the code computes.  The random   *)
(* draw of random.random() is counted in hundredths (0.70 is 70).          *)
(* The "date" strings of the log entries are left out of the document.     *)
(***************************************************************************)
EXTENDS Integers, Sequences, FiniteSets, TLC

VARIABLES
    fstate,        \* the history file: "absent", "corrupt" or "ok"
    history,       \* the parsed history document when fstate = "ok"
    all_verbs,     \* the verbs catalog (verbs.json)
    all_adjectives,\* the adjectives catalog (adjectives.json)
    clock,         \* datetime.now(), counted in writes of last_feedback_check
    send,          \* the send cycle (main.py): position and locals
    fb,            \* the feedback-check cycle (check_feedback.py)
    shown,         \* per catalog, the IDs delivered since its last reset
    arg,           \* the input of a pure function under check
    ret            \* its result

vars == <<fstate, history, all_verbs, all_adjectives, clock, send, fb, shown, arg, ret>>

-----------------------------------------------------------------------------
(* Bounds of the model *)

\* successful deliveries per behaviour
MaxSends == 4
\* accepted feedback events per behaviour
MaxFeedback == 1
\* fragments a feedback text is put together from
MaxPieces == 3
\* items of a pool handed to the band selection
MaxPool == 3

-----------------------------------------------------------------------------
(* Program constants, in quarters of a difficulty level *)

MIN_LEVEL == 4
MAX_LEVEL == 20
DEFAULT_LEVEL == 8
BAND_TOLERANCE == 2
BAND_STEP == 4
EASY_ADJUSTMENT == 2
HARD_ADJUSTMENT == -2
NEUTRAL_ADJUSTMENT == 0
\* the thresholds of the random draw, in hundredths
CURRENT_SHARE == 70
HIGHER_SHARE == 90
LOWER_SHARE == 100

Max2(a, b) == IF a >= b THEN a ELSE b
Min2(a, b) == IF a <= b THEN a ELSE b
Range(s) == {s[i] : i \in 1..Len(s)}

-----------------------------------------------------------------------------
(* feedback_processor.py: keywords and parse_feedback_from_text.           *)
(* A text is a sequence of characters, each a one-character string.        *)

Chars(w) ==
    CASE w = "easy" -> <<"e","a","s","y">>
      [] w = "too easy" -> <<"t","o","o"," ","e","a","s","y">>
      [] w = "easier" -> <<"e","a","s","i","e","r">>
      [] w = "simple" -> <<"s","i","m","p","l","e">>
      [] w = "hard" -> <<"h","a","r","d">>
      [] w = "too hard" -> <<"t","o","o"," ","h","a","r","d">>
      [] w = "harder" -> <<"h","a","r","d","e","r">>
      [] w = "difficult" -> <<"d","i","f","f","i","c","u","l","t">>
      [] w = "perfect" -> <<"p","e","r","f","e","c","t">>
      [] w = "good" -> <<"g","o","o","d">>
      [] w = "just right" -> <<"j","u","s","t"," ","r","i","g","h","t">>

\* the dict FEEDBACK_KEYWORDS, in its insertion order
FEEDBACK_KEYWORDS ==
    << [keyword |-> "easy", adjustment |-> EASY_ADJUSTMENT],
       [keyword |-> "too easy", adjustment |-> EASY_ADJUSTMENT],
       [keyword |-> "easier", adjustment |-> EASY_ADJUSTMENT],
       [keyword |-> "simple", adjustment |-> EASY_ADJUSTMENT],
       [keyword |-> "hard", adjustment |-> HARD_ADJUSTMENT],
       [keyword |-> "too hard", adjustment |-> HARD_ADJUSTMENT],
       [keyword |-> "harder", adjustment |-> HARD_ADJUSTMENT],
       [keyword |-> "difficult", adjustment |-> HARD_ADJUSTMENT],
       [keyword |-> "perfect", adjustment |-> NEUTRAL_ADJUSTMENT],
       [keyword |-> "good", adjustment |-> NEUTRAL_ADJUSTMENT],
       [keyword |-> "just right", adjustment |-> NEUTRAL_ADJUSTMENT] >>

\* no keyword: the None of parse_feedback_from_text
NoKeyword == "None"

\* a lookup that finds +0.5 under every keyword
KeywordAdjustmentEasy(feedback) == EASY_ADJUSTMENT
\* FEEDBACK_KEYWORDS[feedback]
KeywordAdjustment(feedback) ==
    LET i == CHOOSE j \in 1..Len(FEEDBACK_KEYWORDS) : FEEDBACK_KEYWORDS[j].keyword = feedback
    IN  FEEDBACK_KEYWORDS[i].adjustment

LowerLetters ==
    {"a","c","d","e","f","g","h","i","j","l","m","n","o","p","r","s","t","u","w","y"}
UpperLetters == {"E","A","S","Y","H","R","D","T","O","G"}
\* \w of the re module: letters, digits and the underscore
WordChars == LowerLetters \cup UpperLetters \cup {"2", "_"}

\* str.lower() on one character
LowerChar(c) ==
    CASE c = "E" -> "e" [] c = "A" -> "a" [] c = "S" -> "s" [] c = "Y" -> "y"
      [] c = "H" -> "h" [] c = "R" -> "r" [] c = "D" -> "d" [] c = "T" -> "t"
      [] c = "O" -> "o" [] c = "G" -> "g" [] OTHER -> c

\* text.lower()
Lower(text) == [i \in 1..Len(text) |-> LowerChar(text[i])]

IsWordAt(text, j) == j \in 1..Len(text) /\ text[j] \in WordChars

\* a pattern that has lost its \b: every position passes
WordBoundaryNone(text, p) == TRUE
\* \b just before position p: exactly one side is a word character
WordBoundary(text, p) == IsWordAt(text, p - 1) # IsWordAt(text, p)

\* re.search(r'\b' + re.escape(keyword) + r'\b', text)
Search(kw, text) ==
    \E i \in 1..(Len(text) - Len(kw) + 1) :
        /\ SubSeq(text, i, i + Len(kw) - 1) = kw
        /\ WordBoundary(text, i)
        /\ WordBoundary(text, i + Len(kw))

\* a scan that keeps the last keyword found instead of returning the first
parse_feedback_from_text_last(text) ==
    LET text_lower == Lower(text)
        hits == {j \in 1..Len(FEEDBACK_KEYWORDS) :
                    Search(Chars(FEEDBACK_KEYWORDS[j].keyword), text_lower)}
    IN  IF hits = {} THEN NoKeyword
        ELSE FEEDBACK_KEYWORDS[CHOOSE j \in hits : \A k \in hits : j >= k].keyword
parse_feedback_from_text(text) ==
    LET text_lower == Lower(text)
        hits == {j \in 1..Len(FEEDBACK_KEYWORDS) :
                    Search(Chars(FEEDBACK_KEYWORDS[j].keyword), text_lower)}
    IN  IF hits = {} THEN NoKeyword
        ELSE FEEDBACK_KEYWORDS[CHOOSE j \in hits : \A k \in hits : j <= k].keyword

-----------------------------------------------------------------------------
(* data_manager.py: the history document *)

\* the value None of last_feedback_check
NoCheck == 0

\* the document update_history starts from when the file does not exist
InitialHistory ==
    [ sent_emails |-> <<>>,
      used_verbs |-> <<>>,
      used_adjectives |-> <<>>,
      total_emails_sent |-> 0,
      current_difficulty_level |-> DEFAULT_LEVEL,
      difficulty_adjustments |-> <<>>,
      last_feedback_check |-> NoCheck ]

\* a read that takes an unparsable file for a missing one
read_json_lenient(state, doc) ==
    CASE state = "ok" -> [raised |-> "none", data |-> doc]
      [] OTHER -> [raised |-> "FileNotFoundError", data |-> InitialHistory]
\* read_json: "ok" with the document, or the exception it raises
read_json(state, doc) ==
    CASE state = "ok" -> [raised |-> "none", data |-> doc]
      [] state = "absent" -> [raised |-> "FileNotFoundError", data |-> InitialHistory]
      [] OTHER -> [raised |-> "JSONDecodeError", data |-> InitialHistory]

\* list.append(x) guarded by "x not in list"
AppendNew(list, x) == IF x \in Range(list) THEN list ELSE Append(list, x)

\* update_history that forgets the success count
update_history_no_count(h, verb_id, adjective_id, success, difficulty_level) ==
    [h EXCEPT
        !.sent_emails = Append(@, [verb_id |-> verb_id, adjective_id |-> adjective_id,
                                   success |-> success,
                                   difficulty_level |-> difficulty_level]),
        !.used_verbs = IF success THEN AppendNew(@, verb_id) ELSE @,
        !.used_adjectives = IF success THEN AppendNew(@, adjective_id) ELSE @]
\* update_history that marks only the verb as used
update_history_verb_only(h, verb_id, adjective_id, success, difficulty_level) ==
    [h EXCEPT
        !.sent_emails = Append(@, [verb_id |-> verb_id, adjective_id |-> adjective_id,
                                   success |-> success,
                                   difficulty_level |-> difficulty_level]),
        !.used_verbs = IF success THEN AppendNew(@, verb_id) ELSE @,
        !.total_emails_sent = IF success THEN @ + 1 ELSE @]
\* update_history that puts each ID into the other catalog's list
update_history_swapped(h, verb_id, adjective_id, success, difficulty_level) ==
    [h EXCEPT
        !.sent_emails = Append(@, [verb_id |-> verb_id, adjective_id |-> adjective_id,
                                   success |-> success,
                                   difficulty_level |-> difficulty_level]),
        !.used_verbs = IF success THEN AppendNew(@, adjective_id) ELSE @,
        !.used_adjectives = IF success THEN AppendNew(@, verb_id) ELSE @,
        !.total_emails_sent = IF success THEN @ + 1 ELSE @]
\* update_history, from the document read (or initialised) to the document written
update_history(h, verb_id, adjective_id, success, difficulty_level) ==
    [h EXCEPT
        !.sent_emails = Append(@, [verb_id |-> verb_id, adjective_id |-> adjective_id,
                                   success |-> success,
                                   difficulty_level |-> difficulty_level]),
        !.used_verbs = IF success THEN AppendNew(@, verb_id) ELSE @,
        !.used_adjectives = IF success THEN AppendNew(@, adjective_id) ELSE @,
        !.total_emails_sent = IF success THEN @ + 1 ELSE @]

\* the word types reset_used_words accepts; any other raises ValueError
WordTypes == {"verbs", "adjectives"}

\* reset_used_words that leaves the list as it is
reset_used_words_keep(h, word_type) == h
\* reset_used_words that empties both lists
reset_used_words_both(h, word_type) == [h EXCEPT !.used_verbs = <<>>, !.used_adjectives = <<>>]
\* reset_used_words, from the document read to the document written
reset_used_words(h, word_type) ==
    IF word_type = "verbs" THEN [h EXCEPT !.used_verbs = <<>>]
    ELSE [h EXCEPT !.used_adjectives = <<>>]

\* a clamp that has lost its upper limit
ClampLevelNoMax(level) == Max2(MIN_LEVEL, level)
\* max(1.0, min(5.0, level))
ClampLevel(level) == Max2(MIN_LEVEL, Min2(MAX_LEVEL, level))

\* update_difficulty_preference that logs the new level and does not store it
update_difficulty_preference_no_store(h, feedback, adjustment, now) ==
    LET old_level == h.current_difficulty_level
        new_level == ClampLevel(old_level + adjustment)
    IN  [h EXCEPT
            !.difficulty_adjustments = Append(@, [feedback |-> feedback,
                                                  old_level |-> old_level,
                                                  new_level |-> new_level]),
            !.last_feedback_check = now]
\* update_difficulty_preference that skips a document already checked
update_difficulty_preference_once(h, feedback, adjustment, now) ==
    LET old_level == h.current_difficulty_level
        new_level == ClampLevel(old_level + adjustment)
    IN  IF h.last_feedback_check # NoCheck THEN h
        ELSE [h EXCEPT
                !.difficulty_adjustments = Append(@, [feedback |-> feedback,
                                                      old_level |-> old_level,
                                                      new_level |-> new_level]),
                !.current_difficulty_level = new_level,
                !.last_feedback_check = now]
\* update_difficulty_preference, from the document read to the document written
update_difficulty_preference(h, feedback, adjustment, now) ==
    LET old_level == h.current_difficulty_level
        new_level == ClampLevel(old_level + adjustment)
    IN  [h EXCEPT
            !.difficulty_adjustments = Append(@, [feedback |-> feedback,
                                                  old_level |-> old_level,
                                                  new_level |-> new_level]),
            !.current_difficulty_level = new_level,
            !.last_feedback_check = now]

\* get_difficulty_level: the stored level, 2.0 without a file, or the exception
get_difficulty_level(state, doc) ==
    CASE state = "ok" -> [raised |-> "none", level |-> doc.current_difficulty_level]
      [] state = "absent" -> [raised |-> "none", level |-> DEFAULT_LEVEL]
      [] OTHER -> [raised |-> "JSONDecodeError", level |-> DEFAULT_LEVEL]

-----------------------------------------------------------------------------
(* word_selector.py *)

\* a word without a 'difficulty' key
NoDifficulty == -1
\* word.get('difficulty', 2.0)
WordDifficulty(word) ==
    IF word.difficulty = NoDifficulty THEN DEFAULT_LEVEL ELSE word.difficulty

\* a filter whose range leaves out its upper end
filter_words_by_difficulty_open(words, target_difficulty, tolerance) ==
    LET min_diff == Max2(MIN_LEVEL, target_difficulty - tolerance)
        max_diff == Min2(MAX_LEVEL, target_difficulty + tolerance)
    IN  {word \in words : min_diff <= WordDifficulty(word) /\ WordDifficulty(word) < max_diff}
filter_words_by_difficulty(words, target_difficulty, tolerance) ==
    LET min_diff == Max2(MIN_LEVEL, target_difficulty - tolerance)
        max_diff == Min2(MAX_LEVEL, target_difficulty + tolerance)
    IN  {word \in words : min_diff <= WordDifficulty(word) /\ WordDifficulty(word) <= max_diff}

\* a filter that forgets the history
get_unused_words_all(words, used_ids) == words
get_unused_words(words, used_ids) == {word \in words : word.id \notin Range(used_ids)}

current_range(words, d) == filter_words_by_difficulty(words, d, BAND_TOLERANCE)
higher_range(words, d) ==
    filter_words_by_difficulty(words, Min2(MAX_LEVEL, d + BAND_STEP), BAND_TOLERANCE)
lower_range(words, d) ==
    filter_words_by_difficulty(words, Max2(MIN_LEVEL, d - BAND_STEP), BAND_TOLERANCE)

\* a selection whose second branch takes the lower band
select_pool_swapped(words, d, rand) ==
    IF rand < CURRENT_SHARE /\ current_range(words, d) # {} THEN current_range(words, d)
    ELSE IF rand < HIGHER_SHARE /\ lower_range(words, d) # {} THEN lower_range(words, d)
    ELSE IF rand < LOWER_SHARE /\ higher_range(words, d) # {} THEN higher_range(words, d)
    ELSE words
\* select_word_by_difficulty_distribution for a non-empty list: the list that
\* random.choice draws from, for the draw rand of random.random()
select_pool(words, d, rand) ==
    IF rand < CURRENT_SHARE /\ current_range(words, d) # {} THEN current_range(words, d)
    ELSE IF rand < HIGHER_SHARE /\ higher_range(words, d) # {} THEN higher_range(words, d)
    ELSE IF rand < LOWER_SHARE /\ lower_range(words, d) # {} THEN lower_range(words, d)
    ELSE words

\* the draws of random.random() told apart by the thresholds
Rands == {0, 35, 69, 70, 80, 89, 90, 99}

\* every word select_word_by_difficulty_distribution can return for the list
select_word_by_difficulty_distribution(words, d) ==
    UNION {select_pool(words, d, rand) : rand \in Rands}

-----------------------------------------------------------------------------
(* The catalogs and the mailbox the cycles run against *)

\* no word selected yet
NoWord == [id |-> 0, difficulty |-> NoDifficulty]

VerbsCatalog ==
    { [id |-> 1, difficulty |-> 8], [id |-> 2, difficulty |-> 8], [id |-> 3, difficulty |-> 12] }
AdjectivesCatalog ==
    { [id |-> 11, difficulty |-> 8], [id |-> 12, difficulty |-> 4] }

Ids(words) == {word.id : word \in words}

\* "too easy!"
TooEasyText == <<"t","o","o"," ","e","a","s","y","!">>
\* "This was too hard for me"
TooHardText ==
    <<"T","h","i","s"," ","w","a","s"," ","t","o","o"," ","h","a","r","d"," ","f","o","r"," ","m","e">>
\* "that was uneasy"
UneasyText == <<"t","h","a","t"," ","w","a","s"," ","u","n","e","a","s","y">>
\* "Good"
GoodText == <<"G","o","o","d">>

MailBodies == {TooEasyText, TooHardText, UneasyText, GoodText}

\* a message of the recipient: what its subject contains, and its body
Messages == [daily_spanish : BOOLEAN, re : BOOLEAN, body : MailBodies]
\* an older message that is a reply ("Re: ...") to a daily mail
Replies == {m \in Messages : m.re /\ ~m.daily_spanish}
\* the messages FROM the recipient SINCE the cutoff, oldest first: none, one,
\* or an older reply and a latest message
Mailboxes == {<<>>} \cup {<<m>> : m \in Messages} \cup {<<m, n>> : m \in Replies, n \in Messages}

\* the oldest message of a search result
Oldest(mailbox) == mailbox[1]
\* message_numbers[0].split()[-1]: the most recent message of a search result
Latest(mailbox) == mailbox[Len(mailbox)]

\* a parse that finds "easy" in every body
BodyKeywordAlways == [body \in MailBodies |-> "easy"]
\* parse_feedback_from_text on each body a message can carry
BodyKeyword == [body \in MailBodies |-> parse_feedback_from_text(body)]

\* the history file as a reader finds it
Snapshot == [fstate |-> fstate, history |-> history]

-----------------------------------------------------------------------------
(* config/settings.py: the required settings, each set or not set *)

Envs == [GMAIL_ADDRESS : BOOLEAN, GMAIL_APP_PASSWORD : BOOLEAN, RECIPIENT_EMAIL : BOOLEAN]

\* a .env file with every required setting
CompleteEnv == [GMAIL_ADDRESS |-> TRUE, GMAIL_APP_PASSWORD |-> TRUE, RECIPIENT_EMAIL |-> TRUE]

\* a validation that does not look at the recipient
validate_no_recipient(settings) ==
    IF settings.GMAIL_ADDRESS /\ settings.GMAIL_APP_PASSWORD
    THEN "none" ELSE "ValueError"
\* Settings.validate: the exception it raises, if any
validate(settings) ==
    IF settings.GMAIL_ADDRESS /\ settings.GMAIL_APP_PASSWORD /\ settings.RECIPIENT_EMAIL
    THEN "none" ELSE "ValueError"

-----------------------------------------------------------------------------
(* main.py: the send cycle *)

IdleSend ==
    [ pc |-> "idle", dry_run |-> FALSE, settings |-> CompleteEnv,
      used_verbs |-> <<>>, used_adjectives |-> <<>>, sel_difficulty |-> DEFAULT_LEVEL,
      unused_verbs |-> {}, unused_adjectives |-> {},
      verb_reset |-> FALSE, adj_reset |-> FALSE,
      verb |-> NoWord, adjective |-> NoWord,
      current_difficulty |-> DEFAULT_LEVEL, success |-> FALSE,
      buf |-> InitialHistory, outcome |-> "none", exit |-> 0,
      raised |-> "none", writes |-> 0,
      before |-> [fstate |-> "absent", history |-> InitialHistory],
      selected |-> [fstate |-> "absent", history |-> InitialHistory] ]

\* the run ends: main returns
Return(outcome, code) == [send EXCEPT !.pc = "done", !.outcome = outcome, !.exit = code]

\* an exception reaches the except clauses of main: logged, main returns 1
Raise(exception) == [Return("error", 1) EXCEPT !.raised = exception, !.buf = InitialHistory]

\* where select_daily_words goes on after the verbs
AfterVerbs(unused_adjectives) ==
    IF unused_adjectives = {} THEN "reset_adjectives_read" ELSE "pick"

\* python3 main.py [--dry-run] up to Settings.validate; sequential: no
\* feedback check is running; dry_runs: the values of --dry-run the runs are
\* started with; envs: the settings they find
StartSendEnv(sequential, dry_runs, envs) ==
    /\ send.pc = "idle"
    /\ sequential => fb.pc = "idle"
    /\ \E dry_run \in dry_runs, settings \in envs :
         LET started == [IdleSend EXCEPT !.dry_run = dry_run, !.settings = settings,
                                         !.before = Snapshot, !.selected = Snapshot]
         IN  IF validate(settings) # "none"
             THEN send' = [started EXCEPT !.pc = "done", !.outcome = "error", !.exit = 1,
                                          !.raised = validate(settings)]
             ELSE send' = [started EXCEPT !.pc = "select_read"]
    /\ UNCHANGED <<fstate, history, all_verbs, all_adjectives, clock, fb, shown, arg, ret>>

\* python3 main.py [--dry-run] with every required setting in place
StartSend(sequential, dry_runs) == StartSendEnv(sequential, dry_runs, {CompleteEnv})

\* select_daily_words: the catalogs and the history are loaded, the unused words found
SelectRead ==
    /\ send.pc = "select_read"
    /\ LET r == read_json(fstate, history)
           used_verbs == IF r.raised = "none" THEN r.data.used_verbs ELSE <<>>
           used_adjectives == IF r.raised = "none" THEN r.data.used_adjectives ELSE <<>>
           level == IF r.raised = "none" THEN r.data.current_difficulty_level ELSE DEFAULT_LEVEL
           unused_verbs == get_unused_words(all_verbs, used_verbs)
           unused_adjectives == get_unused_words(all_adjectives, used_adjectives)
       IN  IF r.raised = "JSONDecodeError"
           THEN send' = Raise(r.raised)
           ELSE send' = [send EXCEPT
                    !.used_verbs = used_verbs, !.used_adjectives = used_adjectives,
                    !.sel_difficulty = level,
                    !.unused_verbs = unused_verbs, !.unused_adjectives = unused_adjectives,
                    !.pc = IF unused_verbs = {} THEN "reset_verbs_read"
                           ELSE AfterVerbs(unused_adjectives)]
    /\ UNCHANGED <<fstate, history, all_verbs, all_adjectives, clock, fb, shown, arg, ret>>

\* reset_used_words reads the history
ResetRead ==
    /\ send.pc \in {"reset_verbs_read", "reset_adjectives_read"}
    /\ LET r == read_json(fstate, history)
       IN  IF r.raised # "none"
           THEN send' = Raise(r.raised)
           ELSE send' = [send EXCEPT
                    !.buf = r.data,
                    !.pc = IF send.pc = "reset_verbs_read" THEN "reset_verbs_write"
                           ELSE "reset_adjectives_write"]
    /\ UNCHANGED <<fstate, history, all_verbs, all_adjectives, clock, fb, shown, arg, ret>>

\* reset_used_words writes the history with the verbs list emptied
ResetVerbsWrite ==
    /\ send.pc = "reset_verbs_write"
    /\ fstate' = "ok"
    /\ history' = reset_used_words(send.buf, "verbs")
    /\ send' = [send EXCEPT !.unused_verbs = all_verbs, !.verb_reset = TRUE,
                            !.buf = InitialHistory, !.writes = @ + 1,
                            !.pc = AfterVerbs(send.unused_adjectives)]
    /\ shown' = [shown EXCEPT !.verbs = <<>>]
    /\ UNCHANGED <<all_verbs, all_adjectives, clock, fb, arg, ret>>

\* reset_used_words writes the history with the adjectives list emptied
ResetAdjectivesWrite ==
    /\ send.pc = "reset_adjectives_write"
    /\ fstate' = "ok"
    /\ history' = reset_used_words(send.buf, "adjectives")
    /\ send' = [send EXCEPT !.unused_adjectives = all_adjectives, !.adj_reset = TRUE,
                            !.buf = InitialHistory, !.writes = @ + 1, !.pc = "pick"]
    /\ shown' = [shown EXCEPT !.adjectives = <<>>]
    /\ UNCHANGED <<all_verbs, all_adjectives, clock, fb, arg, ret>>

\* select_daily_words picks the verb and the adjective and returns
Pick ==
    /\ send.pc = "pick"
    /\ IF send.unused_verbs = {} \/ send.unused_adjectives = {}
       THEN send' = Raise("ValueError")
       ELSE \E verb \in select_word_by_difficulty_distribution(send.unused_verbs, send.sel_difficulty),
               adjective \in select_word_by_difficulty_distribution(send.unused_adjectives, send.sel_difficulty) :
              send' = [send EXCEPT !.verb = verb, !.adjective = adjective,
                                   !.selected = Snapshot, !.pc = "get_difficulty"]
    /\ UNCHANGED <<fstate, history, all_verbs, all_adjectives, clock, fb, shown, arg, ret>>

\* main reads the current difficulty; a dry run ends here
GetDifficulty ==
    /\ send.pc = "get_difficulty"
    /\ LET r == get_difficulty_level(fstate, history)
       IN  IF r.raised # "none"
           THEN send' = Raise(r.raised)
           ELSE IF send.dry_run
           THEN send' = [Return("dry_run", 0) EXCEPT !.current_difficulty = r.level]
           ELSE send' = [send EXCEPT !.current_difficulty = r.level, !.pc = "deliver"]
    /\ UNCHANGED <<fstate, history, all_verbs, all_adjectives, clock, fb, shown, arg, ret>>

\* the number of deliveries the history records
Sends == IF fstate = "ok" THEN Len(history.sent_emails) ELSE 0

\* send_daily_email returns; main goes on to update_history only on success
Deliver ==
    /\ send.pc = "deliver"
    /\ \E success \in BOOLEAN :
         /\ success => Sends < MaxSends
         /\ send' = IF success
                    THEN [send EXCEPT !.success = TRUE, !.pc = "update_read"]
                    ELSE Return("send_failed", 1)
         /\ shown' = IF success
                     THEN [verbs |-> Append(shown.verbs, send.verb.id),
                           adjectives |-> Append(shown.adjectives, send.adjective.id)]
                     ELSE shown
    /\ UNCHANGED <<fstate, history, all_verbs, all_adjectives, clock, fb, arg, ret>>

\* update_history reads the history, or starts a new one
UpdateRead ==
    /\ send.pc = "update_read"
    /\ LET r == read_json(fstate, history)
       IN  IF r.raised = "JSONDecodeError"
           THEN send' = Raise(r.raised)
           ELSE send' = [send EXCEPT !.buf = r.data, !.pc = "update_write"]
    /\ UNCHANGED <<fstate, history, all_verbs, all_adjectives, clock, fb, shown, arg, ret>>

\* an update_history that reads and writes in one step, as under a lock
UpdateWriteLocked ==
    /\ send.pc = "update_write"
    /\ fstate' = "ok"
    /\ history' = update_history(history, send.verb.id, send.adjective.id,
                                 TRUE, send.current_difficulty)
    /\ send' = [Return("sent", 0) EXCEPT !.buf = InitialHistory, !.writes = @ + 1]
    /\ UNCHANGED <<all_verbs, all_adjectives, clock, fb, shown, arg, ret>>
\* update_history writes the history; main returns 0
UpdateWrite ==
    /\ send.pc = "update_write"
    /\ fstate' = "ok"
    /\ history' = update_history(send.buf, send.verb.id, send.adjective.id,
                                 TRUE, send.current_difficulty)
    /\ send' = [Return("sent", 0) EXCEPT !.buf = InitialHistory, !.writes = @ + 1]
    /\ UNCHANGED <<all_verbs, all_adjectives, clock, fb, shown, arg, ret>>

\* the process of main.py is over
SendExit ==
    /\ send.pc = "done"
    /\ send' = IdleSend
    /\ UNCHANGED <<fstate, history, all_verbs, all_adjectives, clock, fb, shown, arg, ret>>

-----------------------------------------------------------------------------
(* check_feedback.py and feedback_processor.check_for_feedback *)

\* the None of new_difficulty_level
NoLevel == 0

\* no message body was extracted
NoBody == <<>>

IdleFb ==
    [ pc |-> "idle", settings |-> CompleteEnv, body |-> NoBody, feedback |-> NoKeyword, adjustment |-> 0,
      buf |-> InitialHistory,
      found |-> FALSE, keyword |-> NoKeyword, new_level |-> NoLevel,
      raised |-> "none", exit |-> 0, writes |-> 0,
      before |-> [fstate |-> "absent", history |-> InitialHistory] ]

\* check_for_feedback returns (False, None, None); check_feedback.main logs
\* "No feedback found" and returns 0
NotFound == [fb EXCEPT !.pc = "done", !.found = FALSE, !.keyword = NoKeyword,
                       !.new_level = NoLevel, !.buf = InitialHistory, !.exit = 0]

\* an exception inside check_for_feedback: caught there, printed, and
\* (False, None, None) returned
Caught(exception) == [NotFound EXCEPT !.raised = exception]

\* the number of feedback events the history records
Feedbacks == IF fstate = "ok" THEN Len(history.difficulty_adjustments) ELSE 0

\* python3 check_feedback.py up to Settings.validate; sequential: no send
\* cycle is running; envs: the settings the runs find
StartFeedbackEnv(sequential, envs) ==
    /\ fb.pc = "idle"
    /\ sequential => send.pc = "idle"
    /\ \E settings \in envs :
         LET started == [IdleFb EXCEPT !.settings = settings, !.before = Snapshot]
         IN  IF validate(settings) # "none"
             THEN fb' = [started EXCEPT !.pc = "done", !.exit = 1,
                                        !.raised = validate(settings)]
             ELSE fb' = [started EXCEPT !.pc = "fetch"]
    /\ UNCHANGED <<fstate, history, all_verbs, all_adjectives, clock, send, shown, arg, ret>>

\* python3 check_feedback.py with every required setting in place
StartFeedback(sequential) == StartFeedbackEnv(sequential, {CompleteEnv})

\* check_for_feedback up to mail.logout(): the mailbox (one of mailboxes) is
\* searched, the latest message fetched, its subject checked and its body
\* parsed; at most limit feedback events are let through
FbFetchFrom(limit, mailboxes) ==
    /\ fb.pc = "fetch"
    /\ \/ \* connect_imap, select, search or fetch raises: caught, reported as not found
          fb' = Caught("IMAP4.error")
       \/ \E mailbox \in mailboxes :
            LET latest == Latest(mailbox)
                feedback == BodyKeyword[latest.body]
            IN  IF mailbox = <<>> THEN fb' = NotFound
                ELSE IF ~latest.daily_spanish /\ ~latest.re THEN fb' = NotFound
                ELSE IF feedback = NoKeyword
                THEN fb' = [NotFound EXCEPT !.body = latest.body]
                ELSE /\ Feedbacks < limit
                     /\ fb' = [fb EXCEPT !.body = latest.body,
                                         !.feedback = feedback,
                                         !.adjustment = KeywordAdjustment(feedback),
                                         !.pc = "update_read"]
    /\ UNCHANGED <<fstate, history, all_verbs, all_adjectives, clock, send, shown, arg, ret>>

\* check_for_feedback up to mail.logout(), whatever the mailbox holds
FbFetch(limit) == FbFetchFrom(limit, Mailboxes)

\* update_difficulty_preference reads the history; an exception ends the check
FbRead ==
    /\ fb.pc = "update_read"
    /\ LET r == read_json(fstate, history)
       IN  IF r.raised # "none" THEN fb' = Caught(r.raised)
           ELSE fb' = [fb EXCEPT !.buf = r.data, !.pc = "update_write"]
    /\ UNCHANGED <<fstate, history, all_verbs, all_adjectives, clock, send, shown, arg, ret>>

\* update_difficulty_preference writes the history; the check reports the new level
FbWrite ==
    /\ fb.pc = "update_write"
    /\ clock' = clock + 1
    /\ fstate' = "ok"
    /\ history' = update_difficulty_preference(fb.buf, fb.feedback, fb.adjustment, clock')
    /\ fb' = [fb EXCEPT !.pc = "done", !.found = TRUE, !.keyword = fb.feedback,
                        !.new_level = history'.current_difficulty_level,
                        !.buf = InitialHistory, !.exit = 0, !.writes = @ + 1]
    /\ UNCHANGED <<all_verbs, all_adjectives, send, shown, arg, ret>>

\* the process of check_feedback.py is over
FbExit ==
    /\ fb.pc = "done"
    /\ fb' = IdleFb
    /\ UNCHANGED <<fstate, history, all_verbs, all_adjectives, clock, send, shown, arg, ret>>

-----------------------------------------------------------------------------
(* The program: send cycles and feedback checks, one at a time *)

NoArg == [op |-> "none"]
NoRet == [done |-> FALSE]

\* before the first run: no history file, the shipped empty history, or a broken file
Init ==
    /\ fstate \in {"absent", "ok", "corrupt"}
    /\ history = InitialHistory
    /\ all_verbs = VerbsCatalog
    /\ all_adjectives = AdjectivesCatalog
    /\ clock = 0
    /\ send = IdleSend
    /\ fb = IdleFb
    /\ shown = [verbs |-> <<>>, adjectives |-> <<>>]
    /\ arg = NoArg
    /\ ret = NoRet

Next ==
    \/ StartSend(TRUE, BOOLEAN)
    \/ SelectRead
    \/ ResetRead
    \/ ResetVerbsWrite
    \/ ResetAdjectivesWrite
    \/ Pick
    \/ GetDifficulty
    \/ Deliver
    \/ UpdateRead
    \/ UpdateWrite
    \/ SendExit
    \/ StartFeedback(TRUE)
    \/ FbFetch(MaxFeedback)
    \/ FbRead
    \/ FbWrite
    \/ FbExit

Spec == Init /\ [][Next]_vars

-----------------------------------------------------------------------------
(* The program run with any of the required settings set or missing *)

NextConfig ==
    \/ StartSendEnv(TRUE, BOOLEAN, Envs)
    \/ SelectRead
    \/ ResetRead
    \/ ResetVerbsWrite
    \/ ResetAdjectivesWrite
    \/ Pick
    \/ GetDifficulty
    \/ Deliver
    \/ UpdateRead
    \/ UpdateWrite
    \/ SendExit
    \/ StartFeedbackEnv(TRUE, Envs)
    \/ FbFetch(MaxFeedback)
    \/ FbRead
    \/ FbWrite
    \/ FbExit

SpecConfig == Init /\ [][NextConfig]_vars

-----------------------------------------------------------------------------
(* Feedback checks alone, from any stored difficulty *)

\* feedback events per behaviour when only feedback checks run
MaxChain == 3

\* the stored levels tried: 0.5 to 5.5 in quarters, in and out of [1.0, 5.0]
StoredLevels == 2..22

InitFeedback ==
    /\ fstate = "ok"
    /\ \E level \in StoredLevels :
         history = [InitialHistory EXCEPT !.current_difficulty_level = level]
    /\ all_verbs = VerbsCatalog
    /\ all_adjectives = AdjectivesCatalog
    /\ clock = 0
    /\ send = IdleSend
    /\ fb = IdleFb
    /\ shown = [verbs |-> <<>>, adjectives |-> <<>>]
    /\ arg = NoArg
    /\ ret = NoRet

NextFeedback ==
    \/ StartFeedback(TRUE)
    \/ FbFetch(MaxChain)
    \/ FbRead
    \/ FbWrite
    \/ FbExit

SpecFeedback == InitFeedback /\ [][NextFeedback]_vars

-----------------------------------------------------------------------------
(* select_daily_words alone (dry runs), over catalogs and histories *)

\* a list holding the elements of a set
RECURSIVE ListOf(_)
ListOf(set) ==
    IF set = {} THEN <<>>
    ELSE LET x == CHOOSE y \in set : \A z \in set : y <= z
         IN  <<x>> \o ListOf(set \ {x})

VerbsCatalogs ==
    { { [id |-> 1, difficulty |-> 8] },
      { [id |-> 1, difficulty |-> 8], [id |-> 2, difficulty |-> 8], [id |-> 3, difficulty |-> 8] },
      { [id |-> 1, difficulty |-> 4], [id |-> 2, difficulty |-> 16] },
      { [id |-> 1, difficulty |-> NoDifficulty], [id |-> 2, difficulty |-> 20] } }
AdjectivesCatalogs ==
    { { [id |-> 11, difficulty |-> 8], [id |-> 12, difficulty |-> 4] },
      { [id |-> 11, difficulty |-> 12] } }

\* the used-ID lists a history can hold for a catalog: IDs of its words, and 99,
\* an ID the history still lists although its word has left the catalog
UsedLists(words) == {ListOf(ids) : ids \in SUBSET (Ids(words) \cup {99})}

DailyLevels == {4, 8, 14, 20}

InitDaily ==
    /\ all_verbs \in VerbsCatalogs
    /\ all_adjectives \in AdjectivesCatalogs
    /\ \/ /\ fstate = "absent"
          /\ history = InitialHistory
       \/ /\ fstate = "ok"
          /\ \E used_verbs \in UsedLists(all_verbs),
                used_adjectives \in UsedLists(all_adjectives),
                level \in DailyLevels :
               history = [InitialHistory EXCEPT !.used_verbs = used_verbs,
                                                !.used_adjectives = used_adjectives,
                                                !.current_difficulty_level = level]
    /\ clock = 0
    /\ send = IdleSend
    /\ fb = IdleFb
    /\ shown = [verbs |-> <<>>, adjectives |-> <<>>]
    /\ arg = NoArg
    /\ ret = NoRet

NextDaily ==
    \/ StartSend(TRUE, {TRUE})
    \/ SelectRead
    \/ ResetRead
    \/ ResetVerbsWrite
    \/ ResetAdjectivesWrite
    \/ Pick
    \/ GetDifficulty
    \/ SendExit

SpecDaily == InitDaily /\ [][NextDaily]_vars

-----------------------------------------------------------------------------
(* One send cycle and one feedback check, started without waiting for each *)
(* other: two overlapping invocations on the same history file             *)

\* the history after one, two and three deliveries: with unused words in both
\* catalogs, with the adjectives used up, and with the verbs used up
AfterOneSend == update_history(InitialHistory, 1, 11, TRUE, DEFAULT_LEVEL)
AfterTwoSends == update_history(AfterOneSend, 2, 12, TRUE, DEFAULT_LEVEL)
AfterThreeSends ==
    update_history(reset_used_words(AfterTwoSends, "adjectives"), 3, 11, TRUE, DEFAULT_LEVEL)
RaceHistories == {AfterOneSend, AfterTwoSends, AfterThreeSends}

InitRace ==
    /\ fstate = "ok"
    /\ history \in RaceHistories
    /\ all_verbs = VerbsCatalog
    /\ all_adjectives = AdjectivesCatalog
    /\ clock = 0
    /\ send = IdleSend
    /\ fb = IdleFb
    /\ shown = [verbs |-> history.used_verbs, adjectives |-> history.used_adjectives]
    /\ arg = NoArg
    /\ ret = NoRet

\* each of the two processes runs once and stays where it ended
NextRace ==
    \/ StartSend(FALSE, {FALSE})
    \/ SelectRead
    \/ ResetRead
    \/ ResetVerbsWrite
    \/ ResetAdjectivesWrite
    \/ Pick
    \/ GetDifficulty
    \/ Deliver
    \/ UpdateRead
    \/ UpdateWrite
    \/ StartFeedback(FALSE)
    \/ FbFetch(MaxChain)
    \/ FbRead
    \/ FbWrite

SpecRace == InitRace /\ [][NextRace]_vars

-----------------------------------------------------------------------------
(* Send cycles over catalogs that may be empty *)

SmallVerbsCatalogs == { {}, { [id |-> 1, difficulty |-> 8] } }
SmallAdjectivesCatalogs == { {}, { [id |-> 11, difficulty |-> 12] } }

InitCatalogs ==
    /\ all_verbs \in SmallVerbsCatalogs
    /\ all_adjectives \in SmallAdjectivesCatalogs
    /\ \/ /\ fstate = "absent"
          /\ history = InitialHistory
       \/ /\ fstate = "ok"
          /\ \E used_verbs \in UsedLists(all_verbs),
                used_adjectives \in UsedLists(all_adjectives) :
               history = [InitialHistory EXCEPT !.used_verbs = used_verbs,
                                                !.used_adjectives = used_adjectives]
    /\ clock = 0
    /\ send = IdleSend
    /\ fb = IdleFb
    /\ shown = [verbs |-> <<>>, adjectives |-> <<>>]
    /\ arg = NoArg
    /\ ret = NoRet

NextCatalogs ==
    \/ StartSend(TRUE, BOOLEAN)
    \/ SelectRead
    \/ ResetRead
    \/ ResetVerbsWrite
    \/ ResetAdjectivesWrite
    \/ Pick
    \/ GetDifficulty
    \/ Deliver
    \/ UpdateRead
    \/ UpdateWrite
    \/ SendExit

SpecCatalogs == InitCatalogs /\ [][NextCatalogs]_vars

-----------------------------------------------------------------------------
(* The pure functions, applied to inputs drawn from bounded sets *)

\* the program itself is left at rest
AtRest ==
    /\ fstate = "absent"
    /\ history = InitialHistory
    /\ all_verbs = VerbsCatalog
    /\ all_adjectives = AdjectivesCatalog
    /\ clock = 0
    /\ send = IdleSend
    /\ fb = IdleFb
    /\ shown = [verbs |-> <<>>, adjectives |-> <<>>]

\* words of every difficulty a band can start or end at, below 1.0 (0.75), and
\* one without a difficulty
WordUniverse ==
    { [id |-> 1, difficulty |-> 3], [id |-> 2, difficulty |-> 4], [id |-> 3, difficulty |-> 6],
      [id |-> 4, difficulty |-> 8], [id |-> 5, difficulty |-> 10], [id |-> 6, difficulty |-> 12],
      [id |-> 7, difficulty |-> 16], [id |-> 8, difficulty |-> 20],
      [id |-> 9, difficulty |-> NoDifficulty] }

Pools == {words \in SUBSET WordUniverse : Cardinality(words) <= MaxPool}

\* the current difficulty levels: 1.0 to 5.0 in quarters
Levels == MIN_LEVEL..MAX_LEVEL

InitSelect ==
    /\ AtRest
    /\ \E words \in Pools, d \in Levels, rand \in Rands :
         arg = [op |-> "select", words |-> words, d |-> d, rand |-> rand]
    /\ ret = [done |-> FALSE, raised |-> "none", pool |-> {}, word |-> NoWord]

\* select_word_by_difficulty_distribution(words, d) with random.random() = rand
SelectWord ==
    /\ arg.op = "select"
    /\ ~ret.done
    /\ IF arg.words = {}
       THEN ret' = [done |-> TRUE, raised |-> "ValueError", pool |-> {}, word |-> NoWord]
       ELSE \E word \in select_pool(arg.words, arg.d, arg.rand) :
              ret' = [done |-> TRUE, raised |-> "none",
                      pool |-> select_pool(arg.words, arg.d, arg.rand), word |-> word]
    /\ UNCHANGED <<fstate, history, all_verbs, all_adjectives, clock, send, fb, shown, arg>>

SpecSelect == InitSelect /\ [][SelectWord]_vars

\* the fragments feedback texts are put together from
Pieces == {"easy", "hard", "too", "un", "er", " ", "!", "EASY", "good", "_"}

Fragment(piece) ==
    CASE piece = "un" -> <<"u","n">>
      [] piece = "er" -> <<"e","r">>
      [] piece = "too" -> <<"t","o","o">>
      [] piece = "EASY" -> <<"E","A","S","Y">>
      [] piece = " " -> <<" ">>
      [] piece = "!" -> <<"!">>
      [] piece = "_" -> <<"_">>
      [] OTHER -> Chars(piece)

RECURSIVE Concat(_)
Concat(pieces) ==
    IF pieces = <<>> THEN <<>> ELSE Fragment(Head(pieces)) \o Concat(Tail(pieces))

\* two keywords with a space between them, in either order
KeywordPairs ==
    {Chars(FEEDBACK_KEYWORDS[i].keyword) \o <<" ">> \o Chars(FEEDBACK_KEYWORDS[j].keyword) :
        i, j \in 1..Len(FEEDBACK_KEYWORDS)}

Texts ==
    {Concat(pieces) : pieces \in UNION {[1..k -> Pieces] : k \in 0..MaxPieces}}
        \cup MailBodies \cup KeywordPairs

InitParse ==
    /\ AtRest
    /\ \E text \in Texts : arg = [op |-> "parse", text |-> text]
    /\ ret = [done |-> FALSE, keyword |-> NoKeyword]

\* parse_feedback_from_text(text)
ParseText ==
    /\ arg.op = "parse"
    /\ ~ret.done
    /\ ret' = [done |-> TRUE, keyword |-> parse_feedback_from_text(arg.text)]
    /\ UNCHANGED <<fstate, history, all_verbs, all_adjectives, clock, send, fb, shown, arg>>

SpecParse == InitParse /\ [][ParseText]_vars

-----------------------------------------------------------------------------
(* data_manager.write_json step by step, with a reader of the history path *)

\* write() calls json.dump needs to put a document into the file
MaxChunks == 2

\* a file that json.dump writes straight into the history path
DumpTargetPath == "path"
\* the file json.dump writes into: the temporary file of mkstemp
DumpTarget == "temp"

\* documents written and overwritten
WriteDocs ==
    { InitialHistory,
      [InitialHistory EXCEPT !.current_difficulty_level = 10],
      [InitialHistory EXCEPT !.used_verbs = <<1>>, !.total_emails_sent = 1] }

\* the reader has not read yet
NoRead == [raised |-> "not read", data |-> InitialHistory]

InitWrite ==
    /\ \/ /\ fstate = "absent"
          /\ history = InitialHistory
       \/ /\ fstate = "ok"
          /\ history \in WriteDocs
    /\ all_verbs = VerbsCatalog
    /\ all_adjectives = AdjectivesCatalog
    /\ clock = 0
    /\ send = IdleSend
    /\ fb = IdleFb
    /\ shown = [verbs |-> <<>>, adjectives |-> <<>>]
    /\ \E data \in WriteDocs :
         arg = [op |-> "write", data |-> data, pc |-> "mkstemp", temp |-> FALSE,
                written |-> 0, old |-> [fstate |-> fstate, history |-> history]]
    /\ ret = [done |-> FALSE, seen |-> NoRead]

\* tempfile.mkstemp in the directory of the history file; it can raise
WriteMkstemp ==
    /\ arg.op = "write" /\ arg.pc = "mkstemp"
    /\ \/ arg' = [arg EXCEPT !.pc = "dump", !.temp = TRUE]
       \/ arg' = [arg EXCEPT !.pc = "raised"]
    /\ UNCHANGED <<fstate, history, all_verbs, all_adjectives, clock, send, fb, shown, ret>>

\* json.dump writes the next part of the document, or raises
WriteDump ==
    /\ arg.op = "write" /\ arg.pc = "dump"
    /\ \/ /\ arg.written < MaxChunks
          /\ arg' = [arg EXCEPT !.written = @ + 1,
                                !.pc = IF arg.written + 1 = MaxChunks THEN "replace" ELSE "dump"]
          /\ IF DumpTarget = "temp"
             THEN UNCHANGED <<fstate, history>>
             ELSE /\ fstate' = IF arg.written + 1 = MaxChunks THEN "ok" ELSE "corrupt"
                  /\ history' = IF arg.written + 1 = MaxChunks THEN arg.data ELSE history
       \/ /\ arg' = [arg EXCEPT !.pc = "cleanup"]
          /\ UNCHANGED <<fstate, history>>
    /\ UNCHANGED <<all_verbs, all_adjectives, clock, send, fb, shown, ret>>

\* os.replace(temp_path, filepath): the path now names the new document, or
\* the call raises and the path is as before
WriteReplace ==
    /\ arg.op = "write" /\ arg.pc = "replace"
    /\ \/ /\ fstate' = "ok"
          /\ history' = arg.data
          /\ arg' = [arg EXCEPT !.pc = "done", !.temp = FALSE]
       \/ /\ arg' = [arg EXCEPT !.pc = "cleanup"]
          /\ UNCHANGED <<fstate, history>>
    /\ UNCHANGED <<all_verbs, all_adjectives, clock, send, fb, shown, ret>>

\* the except clause: the temporary file is unlinked, the exception raised again
WriteCleanup ==
    /\ arg.op = "write" /\ arg.pc = "cleanup"
    /\ arg' = [arg EXCEPT !.pc = "raised", !.temp = FALSE]
    /\ UNCHANGED <<fstate, history, all_verbs, all_adjectives, clock, send, fb, shown, ret>>

\* another process calls read_json on the history path
ReadFile ==
    /\ arg.op = "write"
    /\ ret' = [ret EXCEPT !.seen = read_json(fstate, history)]
    /\ UNCHANGED <<fstate, history, all_verbs, all_adjectives, clock, send, fb, shown, arg>>

NextWrite ==
    \/ WriteMkstemp
    \/ WriteDump
    \/ WriteReplace
    \/ WriteCleanup
    \/ ReadFile

SpecWrite == InitWrite /\ [][NextWrite]_vars

-----------------------------------------------------------------------------
(* Feedback checks run again and again over a mailbox that does not change *)

\* the stored levels the checks start from: 1.5, 2.0, 4.5
MailboxLevels == {6, 8, 18}

InitMailbox ==
    /\ fstate = "ok"
    /\ \E level \in MailboxLevels :
         history = [InitialHistory EXCEPT !.current_difficulty_level = level]
    /\ all_verbs = VerbsCatalog
    /\ all_adjectives = AdjectivesCatalog
    /\ clock = 0
    /\ send = IdleSend
    /\ fb = IdleFb
    /\ shown = [verbs |-> <<>>, adjectives |-> <<>>]
    /\ \E mailbox \in Mailboxes : arg = [op |-> "mailbox", mailbox |-> mailbox]
    /\ ret = NoRet

NextMailbox ==
    \/ StartFeedback(TRUE)
    \/ FbFetchFrom(MaxChain, {arg.mailbox})
    \/ FbRead
    \/ FbWrite
    \/ FbExit

SpecMailbox == InitMailbox /\ [][NextMailbox]_vars

-----------------------------------------------------------------------------
(* data_manager.reset_used_words called on histories of every shape *)

\* the histories a reset is called on: used lists of the two catalogs, with
\* and without a send log and an adjusted difficulty
ResetHistories ==
    { [base EXCEPT !.used_verbs = used_verbs, !.used_adjectives = used_adjectives] :
        base \in {InitialHistory,
                  update_difficulty_preference(AfterOneSend, "easy", EASY_ADJUSTMENT, 1)},
        used_verbs \in UsedLists(VerbsCatalog),
        used_adjectives \in UsedLists(AdjectivesCatalog) }

InitReset ==
    /\ \/ /\ fstate = "absent"
          /\ history = InitialHistory
       \/ /\ fstate = "ok"
          /\ history \in ResetHistories
    /\ all_verbs = VerbsCatalog
    /\ all_adjectives = AdjectivesCatalog
    /\ clock = 0
    /\ send = IdleSend
    /\ fb = IdleFb
    /\ shown = [verbs |-> <<>>, adjectives |-> <<>>]
    /\ \E word_type \in WordTypes \cup {"nouns"} :
         arg = [op |-> "reset", word_type |-> word_type,
                old |-> [fstate |-> fstate, history |-> history]]
    /\ ret = [done |-> FALSE, raised |-> "none"]

\* reset_used_words(history_file, word_type): read, empty the list, write
ResetCall ==
    /\ arg.op = "reset"
    /\ ~ret.done
    /\ LET r == read_json(fstate, history)
       IN  IF r.raised # "none"
           THEN /\ ret' = [done |-> TRUE, raised |-> r.raised]
                /\ UNCHANGED <<fstate, history>>
           ELSE IF arg.word_type \notin WordTypes
           THEN /\ ret' = [done |-> TRUE, raised |-> "ValueError"]
                /\ UNCHANGED <<fstate, history>>
           ELSE /\ ret' = [done |-> TRUE, raised |-> "none"]
                /\ fstate' = "ok"
                /\ history' = reset_used_words(r.data, arg.word_type)
    /\ UNCHANGED <<all_verbs, all_adjectives, clock, send, fb, shown, arg>>

SpecReset == InitReset /\ [][ResetCall]_vars

-----------------------------------------------------------------------------
(* Send cycles and feedback checks one after the other, from the default
   state, over catalogs of one word each: every delivery but the first
   follows a reset of both lists *)

OneVerb == { [id |-> 1, difficulty |-> 8] }
OneAdjective == { [id |-> 11, difficulty |-> 12] }

InitChain ==
    /\ fstate \in {"absent", "ok"}
    /\ history = InitialHistory
    /\ all_verbs = OneVerb
    /\ all_adjectives = OneAdjective
    /\ clock = 0
    /\ send = IdleSend
    /\ fb = IdleFb
    /\ shown = [verbs |-> <<>>, adjectives |-> <<>>]
    /\ arg = NoArg
    /\ ret = NoRet

NextChain ==
    \/ StartSend(TRUE, BOOLEAN)
    \/ SelectRead
    \/ ResetRead
    \/ ResetVerbsWrite
    \/ ResetAdjectivesWrite
    \/ Pick
    \/ GetDifficulty
    \/ Deliver
    \/ UpdateRead
    \/ UpdateWrite
    \/ SendExit
    \/ StartFeedback(TRUE)
    \/ FbFetch(MaxChain)
    \/ FbRead
    \/ FbWrite
    \/ FbExit

SpecChain == InitChain /\ [][NextChain]_vars

-----------------------------------------------------------------------------
(* email_sender.create_smtp_connection and its caller send_daily_email *)

\* the largest value of the parameter retries
MaxRetries == 4

\* the default of retries and of delay (seconds)
DEFAULT_RETRIES == 3
DEFAULT_DELAY == 5

\* what an attempt to connect and log in ends with
AttemptOutcomes == {"ok", "SMTPException", "OSError"}

\* a loop that takes no attempt for the last one
LastAttemptNever(attempt, retries) == FALSE
\* the else branch of "if attempt < retries - 1"
LastAttempt(attempt, retries) == ~(attempt < retries - 1)

InitSmtp ==
    /\ AtRest
    /\ \E retries \in 0..MaxRetries, delay \in {1, DEFAULT_DELAY} :
         arg = [op |-> "smtp", retries |-> retries, delay |-> delay]
    /\ ret = [done |-> FALSE, attempt |-> 0, attempts |-> 0, delay |-> arg.delay,
              sleeps |-> <<>>, result |-> "none", raised |-> "none", sent |-> "none"]

\* one pass of "for attempt in range(retries)": SMTP_SSL and login succeed
\* and the server is returned, or they raise and the loop sleeps and goes on,
\* or raises again on the last attempt
SmtpAttempt ==
    /\ arg.op = "smtp"
    /\ ret.result = "none"
    /\ ret.attempt < arg.retries
    /\ \E outcome \in AttemptOutcomes :
         ret' = IF outcome = "ok"
                THEN [ret EXCEPT !.attempts = @ + 1, !.result = "connected"]
                ELSE IF LastAttempt(ret.attempt, arg.retries)
                THEN [ret EXCEPT !.attempts = @ + 1, !.result = "raised", !.raised = outcome]
                ELSE [ret EXCEPT !.attempts = @ + 1, !.attempt = @ + 1,
                                 !.sleeps = Append(@, ret.delay), !.delay = @ * 2]
    /\ UNCHANGED <<fstate, history, all_verbs, all_adjectives, clock, send, fb, shown, arg>>

\* the loop is over without a return or a raise: the function returns None
SmtpLoopEnds ==
    /\ arg.op = "smtp"
    /\ ret.result = "none"
    /\ ret.attempt >= arg.retries
    /\ ret' = [ret EXCEPT !.result = "returned None"]
    /\ UNCHANGED <<fstate, history, all_verbs, all_adjectives, clock, send, fb, shown, arg>>

\* send_daily_email after create_smtp_connection: the mail is sent over the
\* connection, or an exception is caught and False returned
SendDailyEmail ==
    /\ arg.op = "smtp"
    /\ ret.result # "none"
    /\ ~ret.done
    /\ \E sent \in BOOLEAN :
         /\ sent => ret.result = "connected"
         /\ ret' = [ret EXCEPT !.done = TRUE, !.sent = IF sent THEN "True" ELSE "False"]
    /\ UNCHANGED <<fstate, history, all_verbs, all_adjectives, clock, send, fb, shown, arg>>

NextSmtp ==
    \/ SmtpAttempt
    \/ SmtpLoopEnds
    \/ SendDailyEmail

SpecSmtp == InitSmtp /\ [][NextSmtp]_vars

-----------------------------------------------------------------------------
(* Properties *)

\* the document a run found: the stored one, or the default without a file
DocumentOf(snapshot) ==
    IF snapshot.fstate = "ok" THEN snapshot.history ELSE InitialHistory

NoDuplicates(list) == \A i, j \in 1..Len(list) : list[i] = list[j] => i = j

\* select_daily_words has returned
Selected == send.pc \in {"get_difficulty", "deliver", "update_read", "update_write"}
                \/ (send.pc = "done" /\ send.outcome \in {"dry_run", "send_failed", "sent"})

\* C1: a send cycle whose delivery fails leaves the persisted history document
\* exactly as it was before the run, whatever the starting history.
C1_FailedSendLeavesHistory ==
    (send.pc = "done" /\ send.outcome = "send_failed") => Snapshot = send.before

\* C2: when a catalog has an unused item, select_daily_words returns for it a
\* word whose ID is not in the used list the run found and reports no reset; a
\* word whose ID was in that list is returned only together with a reset.  With
\* IDs {1,2,3} and used = [1,2] the word is 3.
C2_UnusedWordWithoutReset ==
    Selected =>
        LET found == DocumentOf(send.before)
            used_v == Range(found.used_verbs)
            used_a == Range(found.used_adjectives)
        IN  /\ send.verb \in all_verbs
            /\ send.adjective \in all_adjectives
            /\ Ids(all_verbs) \ used_v # {} => ~send.verb_reset /\ send.verb.id \notin used_v
            /\ Ids(all_adjectives) \ used_a # {} =>
                   ~send.adj_reset /\ send.adjective.id \notin used_a
            /\ send.verb.id \in used_v => send.verb_reset
            /\ send.adjective.id \in used_a => send.adj_reset
            /\ (Ids(all_verbs) = {1, 2, 3} /\ used_v = {1, 2}) => send.verb.id = 3

\* the run found used = [1,2] for the verbs 1, 2, 3 and returned verb 3
C2_Witness ==
    /\ send.pc = "done" /\ send.outcome = "dry_run"
    /\ Ids(all_verbs) = {1, 2, 3}
    /\ send.before.fstate = "ok"
    /\ Range(send.before.history.used_verbs) = {1, 2}
    /\ send.verb.id = 3 /\ ~send.verb_reset

\* a verbs reset is written / an adjectives reset is written
ResetsVerbs == send.pc = "reset_verbs_write" /\ send'.pc # "reset_verbs_write"
ResetsAdjectives == send.pc = "reset_adjectives_write" /\ send'.pc # "reset_adjectives_write"

C4_ExhaustedCatalogIsReset ==
    Selected =>
        LET found == DocumentOf(send.before)
        IN  /\ Ids(all_verbs) \subseteq Range(found.used_verbs) =>
                /\ send.verb_reset
                /\ send.unused_verbs = all_verbs
                /\ send.verb \in all_verbs
                /\ send.selected.fstate = "ok"
                /\ send.selected.history.used_verbs = <<>>
            /\ Ids(all_adjectives) \subseteq Range(found.used_adjectives) =>
                /\ send.adj_reset
                /\ send.unused_adjectives = all_adjectives
                /\ send.adjective \in all_adjectives
                /\ send.selected.fstate = "ok"
                /\ send.selected.history.used_adjectives = <<>>

\* both catalogs were exhausted; the dry run has reset both and the file shows it
C4_Witness ==
    /\ send.pc = "done" /\ send.outcome = "dry_run"
    /\ Ids(all_verbs) = {1, 2}
    /\ Range(send.before.history.used_verbs) = {1, 2}
    /\ send.verb_reset /\ send.adj_reset
    /\ fstate = "ok" /\ history.used_verbs = <<>> /\ history.used_adjectives = <<>>

\* C5: update_history runs only after a confirmed delivery, and then the
\* document written differs from the one select_daily_words left in exactly
\* this: one send-log entry appended (both IDs, success, the difficulty used),
\* both IDs in their used lists, the success count one higher.
C5_UpdateOnlyOnSuccess ==
    /\ send.pc \in {"update_read", "update_write"} => send.success
    /\ (send.pc = "done" /\ ~send.success) =>
           (send.outcome # "sent" /\ Snapshot = send.selected)
    /\ (send.pc = "done" /\ send.outcome = "sent") =>
           LET base == DocumentOf(send.selected)
           IN  /\ send.success
               /\ fstate = "ok"
               /\ history.sent_emails =
                      Append(base.sent_emails,
                             [verb_id |-> send.verb.id, adjective_id |-> send.adjective.id,
                              success |-> TRUE, difficulty_level |-> send.sel_difficulty])
               /\ Len(history.used_verbs) <= Len(base.used_verbs) + 1
               /\ Range(history.used_verbs) = Range(base.used_verbs) \cup {send.verb.id}
               /\ Len(history.used_adjectives) <= Len(base.used_adjectives) + 1
               /\ Range(history.used_adjectives) =
                      Range(base.used_adjectives) \cup {send.adjective.id}
               /\ history.total_emails_sent = base.total_emails_sent + 1
               /\ history.current_difficulty_level = base.current_difficulty_level
               /\ history.difficulty_adjustments = base.difficulty_adjustments
               /\ history.last_feedback_check = base.last_feedback_check

\* a confirmed delivery after a reset of the adjectives has been recorded
C5_Witness ==
    /\ send.pc = "done" /\ send.outcome = "sent"
    /\ send.adj_reset
    /\ history.total_emails_sent = 3

\* the band the draw points at: current below 0.70, higher below 0.90, else lower
DrawnBand(words, d, rand) ==
    IF rand < 70 THEN current_range(words, d)
    ELSE IF rand < 90 THEN higher_range(words, d)
    ELSE lower_range(words, d)

\* C6: select_word_by_difficulty_distribution returns a word of the current
\* band when r < 0.70 and that band is non-empty, of the higher band when
\* 0.70 <= r < 0.90 and that band is non-empty, of the lower band when
\* 0.90 <= r < 1.00 and that band is non-empty; the word is always one of the
\* words passed in.
C6_DrawnBandIsUsed ==
    (arg.op = "select" /\ ret.done /\ ret.raised = "none") =>
        /\ ret.word \in arg.words
        /\ (arg.rand < 70 /\ current_range(arg.words, arg.d) # {}) =>
               ret.word \in current_range(arg.words, arg.d)
        /\ (70 <= arg.rand /\ arg.rand < 90 /\ higher_range(arg.words, arg.d) # {}) =>
               ret.word \in higher_range(arg.words, arg.d)
        /\ (90 <= arg.rand /\ arg.rand < 100 /\ lower_range(arg.words, arg.d) # {}) =>
               ret.word \in lower_range(arg.words, arg.d)

\* a draw of 0.80 with all three bands non-empty and different: a higher-band word
C6_Witness ==
    /\ arg.op = "select" /\ ret.done
    /\ arg.rand = 80 /\ arg.d = 8
    /\ current_range(arg.words, arg.d) # {}
    /\ lower_range(arg.words, arg.d) # {}
    /\ ret.word.difficulty = 12

\* C7: when the band the draw points at is empty, the word is chosen from the
\* whole list passed in: every word of it can be returned, whatever the other
\* two bands hold.
C7_EmptyBandFallsBackToAll ==
    (arg.op = "select" /\ ret.done /\ ret.raised = "none"
        /\ DrawnBand(arg.words, arg.d, arg.rand) = {}) => ret.pool = arg.words

\* the clamp of the claims, case by case
Clamped(level) ==
    IF level < MIN_LEVEL THEN MIN_LEVEL ELSE IF level > MAX_LEVEL THEN MAX_LEVEL ELSE level

EasyFamily == {"easy", "too easy", "easier", "simple"}
HardFamily == {"hard", "too hard", "harder", "difficult"}

\* the adjustment of a keyword's family: +0.5, -0.5 or none
FamilyAdjustment(keyword) ==
    IF keyword \in EasyFamily THEN 2 ELSE IF keyword \in HardFamily THEN -2 ELSE 0

\* C8: after any sequence of accepted feedback events, from any stored
\* difficulty, the persisted difficulty lies in [1.0, 5.0], and every event
\* persists clamp(previous difficulty + adjustment, 1.0, 5.0).
C8_DifficultyClamped ==
    /\ [](history.difficulty_adjustments # <<>> =>
             (MIN_LEVEL <= history.current_difficulty_level
                 /\ history.current_difficulty_level <= MAX_LEVEL))
    /\ [][(fb.pc = "update_write" /\ fb'.pc = "done") =>
             history'.current_difficulty_level =
                 Clamped(history.current_difficulty_level + FamilyAdjustment(fb.feedback))]_vars

\* 4.75 + 0.5 has been persisted as 5.0
C8_Witness ==
    /\ fb.pc = "done" /\ fb.found
    /\ fb.before.history.current_difficulty_level = 19
    /\ history.current_difficulty_level = MAX_LEVEL

\* an easy-family event directly followed by a hard-family event
EasyThenHard(log, i) ==
    /\ i \in 1..(Len(log) - 1)
    /\ log[i].feedback \in EasyFamily
    /\ log[i + 1].feedback \in HardFamily

\* C9 as claimed: from every difficulty d in [1.0, 5.0], an easy-family
\* feedback followed by a hard-family feedback returns the difficulty to d.
C9_EasyThenHardRestores ==
    LET log == history.difficulty_adjustments
    IN  \A i \in 1..Len(log) :
            (EasyThenHard(log, i) /\ log[i].old_level \in MIN_LEVEL..MAX_LEVEL) =>
                log[i + 1].new_level = log[i].old_level

\* C9 as amended: from every d in [1.0, 4.5] easy then hard returns the
\* difficulty to d; from d in (4.5, 5.0] it ends at 4.5.  The level persisted
\* after the pair is the one the log records.
C9_EasyThenHardRestoresBelowClamp ==
    LET log == history.difficulty_adjustments
    IN  /\ \A i \in 1..Len(log) :
               EasyThenHard(log, i) =>
                   /\ log[i].old_level \in MIN_LEVEL..(MAX_LEVEL - 2) =>
                          log[i + 1].new_level = log[i].old_level
                   /\ log[i].old_level \in (MAX_LEVEL - 1)..MAX_LEVEL =>
                          log[i + 1].new_level = MAX_LEVEL - 2
        /\ log # <<>> => history.current_difficulty_level = log[Len(log)].new_level

\* easy then hard from 3.0 has come back to 3.0, and the level is persisted
C9_Witness ==
    LET log == history.difficulty_adjustments
    IN  /\ Len(log) = 2
        /\ EasyThenHard(log, 1)
        /\ log[1].old_level = 12
        /\ history.current_difficulty_level = 12

\* the maximal runs of word characters of a text, as (first, last) positions
WordRuns(text) ==
    {run \in (1..Len(text)) \X (1..Len(text)) :
        /\ run[1] <= run[2]
        /\ \A k \in run[1]..run[2] : text[k] \in WordChars
        /\ run[1] = 1 \/ text[run[1] - 1] \notin WordChars
        /\ run[2] = Len(text) \/ text[run[2] + 1] \notin WordChars}

\* the words of a keyword: one, or two with one space between them
KeywordWords(keyword) ==
    CASE keyword = "too easy" -> <<<<"t","o","o">>, <<"e","a","s","y">>>>
      [] keyword = "too hard" -> <<<<"t","o","o">>, <<"h","a","r","d">>>>
      [] keyword = "just right" -> <<<<"j","u","s","t">>, <<"r","i","g","h","t">>>>
      [] OTHER -> <<Chars(keyword)>>

\* the keyword stands in the text as whole words: a run of its own, or two
\* runs with exactly one space between them
StandsAlone(keyword, text) ==
    LET words == KeywordWords(keyword)
    IN  \E first \in WordRuns(text) :
            /\ SubSeq(text, first[1], first[2]) = words[1]
            /\ Len(words) = 2 =>
                   \E second \in WordRuns(text) :
                       /\ second[1] = first[2] + 2
                       /\ text[first[2] + 1] = " "
                       /\ SubSeq(text, second[1], second[2]) = words[2]

KeywordNames == {FEEDBACK_KEYWORDS[j].keyword : j \in 1..Len(FEEDBACK_KEYWORDS)}

\* C10: parse_feedback_from_text matches without regard to case and only
\* whole words or phrases: the keyword returned stands alone in the lowered
\* text, nothing is returned only when no keyword stands alone, "that was
\* uneasy" yields nothing and "too easy!" an easy-family keyword (+0.5).
C10_WholeWordMatch ==
    (arg.op = "parse" /\ ret.done) =>
        /\ ret.keyword # NoKeyword =>
               (ret.keyword \in KeywordNames /\ StandsAlone(ret.keyword, Lower(arg.text)))
        /\ ret.keyword = NoKeyword =>
               \A keyword \in KeywordNames : ~StandsAlone(keyword, Lower(arg.text))
        /\ arg.text = UneasyText => ret.keyword = NoKeyword
        /\ arg.text = TooEasyText =>
               (ret.keyword \in EasyFamily /\ KeywordAdjustment(ret.keyword) = 2)

\* "that was uneasy" has been parsed, and nothing was found
C10_Witness ==
    /\ arg.op = "parse" /\ ret.done
    /\ arg.text = UneasyText
    /\ ret.keyword = NoKeyword

\* the order of the keyword list
ClaimedOrder ==
    <<"easy", "too easy", "easier", "simple", "hard", "too hard", "harder", "difficult",
      "perfect", "good", "just right">>

\* the positions in ClaimedOrder of the keywords standing alone in a lowered text
Matching(text) == {i \in 1..Len(ClaimedOrder) : StandsAlone(ClaimedOrder[i], text)}

\* "hard easy"
HardEasyText == <<"h","a","r","d"," ","e","a","s","y">>

\* C11: when several keywords match, parse_feedback_from_text returns the one
\* that comes first in the order easy, too easy, easier, simple, hard, too
\* hard, harder, difficult, perfect, good, just right, wherever the keywords
\* stand in the text: "hard" and "easy" together yield "easy", and "too easy"
\* and "too hard" are never returned.
C11_FirstInListOrderWins ==
    (arg.op = "parse" /\ ret.done) =>
        LET text == Lower(arg.text)
        IN  /\ Matching(text) # {} =>
                   ret.keyword = ClaimedOrder[CHOOSE i \in Matching(text) :
                                                 \A k \in Matching(text) : i <= k]
            /\ (StandsAlone("hard", text) /\ StandsAlone("easy", text)) =>
                   ret.keyword = "easy"
            /\ ret.keyword \notin {"too easy", "too hard"}

\* "hard easy" has been parsed: "easy", although "hard" comes first in the text
C11_Witness ==
    /\ arg.op = "parse" /\ ret.done
    /\ arg.text = HardEasyText
    /\ Cardinality(Matching(Lower(arg.text))) = 2
    /\ ret.keyword = "easy"

\* for each body a message can carry, the keywords standing alone in it
BodyMatching == [body \in MailBodies |-> Matching(Lower(body))]

\* the body the check has parsed holds no keyword, or there was no body
NothingMatched == fb.body = NoBody \/ BodyMatching[fb.body] = {}

\* C12: a feedback check that finds no message, or whose message body matches
\* no keyword, reports (False, no keyword, no level) and leaves the persisted
\* history document as it was: no log entry, no difficulty change, no
\* timestamp, no write at all.
C12_NoMatchLeavesHistory ==
    (fb.pc = "done" /\ NothingMatched) =>
        /\ ~fb.found
        /\ fb.keyword = NoKeyword
        /\ fb.new_level = NoLevel
        /\ fb.writes = 0
        /\ Snapshot = fb.before

\* "that was uneasy" was the reply, after a delivery: nothing found, nothing changed
C12_Witness ==
    /\ fb.pc = "done" /\ fb.body = UneasyText /\ fb.raised = "none"
    /\ ~fb.found
    /\ fstate = "ok" /\ history.total_emails_sent = 1
    /\ history.difficulty_adjustments = <<>>

\* C13: a feedback check whose message body matches a keyword applies the
\* keyword's adjustment, appends exactly one log entry (keyword, old level,
\* new level), persists the new difficulty and reports (True, keyword, new
\* difficulty); "This was too hard for me" at 3.0 gives a hard-family keyword
\* and 2.5; perfect, good and just right leave the difficulty as it was.
C13_MatchIsAppliedAndReported ==
    /\ (fb.pc = "done" /\ fb.raised = "none" /\ ~NothingMatched) => fb.found
    /\ (fb.pc = "done" /\ fb.found) =>
           LET old == fb.before.history
               old_level == old.current_difficulty_level
               new_level == Clamped(old_level + FamilyAdjustment(fb.keyword))
           IN  /\ fb.keyword = ClaimedOrder[CHOOSE i \in BodyMatching[fb.body] :
                                                \A k \in BodyMatching[fb.body] : i <= k]
               /\ fb.new_level = new_level
               /\ fb.writes = 1
               /\ fstate = "ok"
               /\ history.current_difficulty_level = new_level
               /\ history.difficulty_adjustments =
                      Append(old.difficulty_adjustments,
                             [feedback |-> fb.keyword, old_level |-> old_level,
                              new_level |-> new_level])
               /\ history.sent_emails = old.sent_emails
               /\ history.used_verbs = old.used_verbs
               /\ history.used_adjectives = old.used_adjectives
               /\ history.total_emails_sent = old.total_emails_sent
               /\ fb.keyword \in {"perfect", "good", "just right"} =>
                      new_level = Clamped(old_level)
               /\ (fb.body = TooHardText /\ old_level = 12) =>
                      (fb.keyword \in HardFamily /\ history.current_difficulty_level = 10)

\* "This was too hard for me" at 3.0: "hard" is reported, 2.5 persisted
C13_Witness ==
    /\ fb.pc = "done" /\ fb.found
    /\ fb.body = TooHardText
    /\ fb.before.history.current_difficulty_level = 12
    /\ fb.keyword = "hard"
    /\ fb.new_level = 10
    /\ history.current_difficulty_level = 10

\* C14: the history document is created on first write if absent: without a
\* document, a first confirmed delivery and a first accepted feedback event
\* each leave the default document (empty used lists, 2.0, zero sends) with
\* the event applied, and a reset never leaves the document missing.
C14_CreatedOnFirstWrite ==
    /\ (send.pc = "done" /\ send.outcome = "sent" /\ send.before.fstate = "absent") =>
           /\ fstate = "ok"
           /\ history =
                  [InitialHistory EXCEPT
                      !.sent_emails = << [verb_id |-> send.verb.id,
                                          adjective_id |-> send.adjective.id,
                                          success |-> TRUE, difficulty_level |-> 8] >>,
                      !.used_verbs = <<send.verb.id>>,
                      !.used_adjectives = <<send.adjective.id>>,
                      !.total_emails_sent = 1]
    /\ (send.verb_reset \/ send.adj_reset) => fstate = "ok"
    /\ (fb.pc = "done" /\ fb.before.fstate = "absent" /\ ~NothingMatched) =>
           LET keyword == ClaimedOrder[CHOOSE i \in BodyMatching[fb.body] :
                                          \A k \in BodyMatching[fb.body] : i <= k]
               new_level == Clamped(8 + FamilyAdjustment(keyword))
           IN  /\ fb.found
               /\ fstate = "ok"
               /\ history.current_difficulty_level = new_level
               /\ history.difficulty_adjustments =
                      << [feedback |-> keyword, old_level |-> 8, new_level |-> new_level] >>
               /\ history.used_verbs = <<>> /\ history.used_adjectives = <<>>
               /\ history.total_emails_sent = 0 /\ history.sent_emails = <<>>

\* C15: whether the history document exists or not, a send cycle with an
\* empty catalog fails with the ValueError "No words available to select
\* from", exits non-zero and delivers nothing.
C15_EmptyCatalogNoCandidates ==
    (send.pc = "done" /\ (all_verbs = {} \/ all_adjectives = {})) =>
        /\ send.outcome = "error"
        /\ send.raised = "ValueError"
        /\ send.exit = 1
        /\ ~send.success

\* C16: every error raised during a feedback check (mailbox failure, missing
\* or corrupt history document) ends check_feedback with a non-zero exit, and
\* is not reported as "no feedback found".
C16_FeedbackErrorsSurface ==
    (fb.pc = "done" /\ fb.raised # "none") => fb.exit # 0

\* C17: when the history document exists but cannot be parsed, a send cycle
\* selects nothing from a default, fails with exit 1 before any delivery, and
\* the file stays as it is: not replaced, not written.
C17_CorruptHistoryIsFatal ==
    (send.pc # "idle" /\ send.before.fstate = "corrupt") =>
        /\ fstate = "corrupt"
        /\ send.writes = 0
        /\ ~Selected
        /\ send.verb = NoWord /\ send.adjective = NoWord
        /\ ~send.success
        /\ send.pc = "done" =>
               (send.outcome = "error" /\ send.raised = "JSONDecodeError" /\ send.exit = 1)

\* a run without --dry-run has ended on the unparsable file
C17_Witness ==
    /\ send.pc = "done" /\ ~send.dry_run
    /\ send.before.fstate = "corrupt"
    /\ send.raised = "JSONDecodeError" /\ send.exit = 1
    /\ fstate = "corrupt"

\* C19: every successful run writes the history document exactly once: a send
\* cycle with a confirmed delivery (with or without a reset) and a feedback
\* check that accepts feedback.
C19_OneWritePerSuccessfulRun ==
    /\ (send.pc = "done" /\ send.outcome = "sent") => send.writes = 1
    /\ (fb.pc = "done" /\ fb.found) => fb.writes = 1

\* the history path holding the complete new document of a write
NewSnapshot == [fstate |-> "ok", history |-> arg.data]

\* C18: write_json is atomic for readers of the history path: at every point
\* of a write, also of one that fails part-way, the path holds the complete
\* old document (or no file, as before) or the complete new one, a reader
\* gets one of the two, and a failed write leaves the old document in place.
C18_WriteIsAtomic ==
    arg.op = "write" =>
        /\ Snapshot \in {arg.old, NewSnapshot}
        /\ ret.seen \in {NoRead, read_json(arg.old.fstate, arg.old.history),
                          [raised |-> "none", data |-> arg.data]}
        /\ arg.pc \in {"mkstemp", "dump", "replace", "cleanup", "raised"} =>
               Snapshot = arg.old
        /\ arg.pc = "done" => Snapshot = NewSnapshot

\* json.dump has failed after its first write() call; a reader has got the
\* complete old document, which is still in place and differs from the new one
C18_Witness ==
    /\ arg.op = "write" /\ arg.pc = "raised"
    /\ arg.written = 1 /\ ~arg.temp
    /\ arg.old.fstate = "ok" /\ arg.old.history # arg.data
    /\ ret.seen = [raised |-> "none", data |-> arg.old.history]
    /\ Snapshot = arg.old

\* the send cycle writes the history (a reset or the update) / the feedback
\* check writes it
SendWrites ==
    send.pc \in {"reset_verbs_write", "reset_adjectives_write", "update_write"}
        /\ send'.pc # send.pc
FbWrites == fb.pc = "update_write" /\ fb'.pc = "done"

\* C20: the updates are unlocked read / modify / write sequences over the
\* whole document, so when a send cycle and a feedback check overlap, a write
\* made from a copy read before the other's write puts the stale copy back:
\* the send cycle's reset or update overwrites the difficulty adjustment and
\* its log entry, the feedback check's update overwrites the send-log entry,
\* the used IDs and the count.
C20_StaleWriteLosesUpdate ==
    [][ /\ (SendWrites /\ history.difficulty_adjustments # send.buf.difficulty_adjustments) =>
               /\ history'.difficulty_adjustments = send.buf.difficulty_adjustments
               /\ history'.current_difficulty_level = send.buf.current_difficulty_level
               /\ history'.last_feedback_check = send.buf.last_feedback_check
        /\ (FbWrites /\ history.sent_emails # fb.buf.sent_emails) =>
               /\ history'.sent_emails = fb.buf.sent_emails
               /\ history'.used_verbs = fb.buf.used_verbs
               /\ history'.used_adjectives = fb.buf.used_adjectives
               /\ history'.total_emails_sent = fb.buf.total_emails_sent
        /\ (FbWrites /\ history.used_adjectives # fb.buf.used_adjectives) =>
               history'.used_adjectives = fb.buf.used_adjectives ]_vars

\* both runs have ended well: the feedback check reported a new level, the
\* mail went out, and the history holds neither the level nor the log entry
C20_Witness ==
    /\ fb.pc = "done" /\ fb.found /\ fb.keyword = "easy" /\ fb.new_level = 10
    /\ send.pc = "done" /\ send.outcome = "sent"
    /\ history.difficulty_adjustments = <<>>
    /\ history.current_difficulty_level = DEFAULT_LEVEL
    /\ history.total_emails_sent = 2

\* C21: when a required setting (sender address, app password, recipient) is
\* missing, the send run and the feedback check end with a configuration
\* error and a non-zero exit before any selection, delivery, mailbox access
\* or write.
C21_MissingSettingAborts ==
    /\ (send.pc # "idle" /\ send.settings # CompleteEnv) =>
           /\ send.pc = "done" /\ send.outcome = "error"
           /\ send.raised = "ValueError" /\ send.exit = 1
           /\ send.verb = NoWord /\ send.adjective = NoWord
           /\ ~send.success /\ send.writes = 0
           /\ Snapshot = send.before
    /\ (fb.pc # "idle" /\ fb.settings # CompleteEnv) =>
           /\ fb.pc = "done" /\ ~fb.found
           /\ fb.raised = "ValueError" /\ fb.exit = 1
           /\ fb.body = NoBody /\ fb.writes = 0
           /\ Snapshot = fb.before

\* after a delivery, a feedback check without the recipient setting has
\* ended with exit 1 and the history as it was
C21_Witness ==
    /\ fb.pc = "done" /\ ~fb.settings.RECIPIENT_EMAIL
    /\ fb.settings.GMAIL_ADDRESS /\ fb.settings.GMAIL_APP_PASSWORD
    /\ fb.exit = 1
    /\ fstate = "ok" /\ history.total_emails_sent = 1

Distance(a, b) == IF a >= b THEN a - b ELSE b - a

\* the targets of the higher and of the lower band: min(5.0, d + 1.0) and
\* max(1.0, d - 1.0)
HigherTarget(d) == IF d + 4 > 20 THEN 20 ELSE d + 4
LowerTarget(d) == IF d - 4 < 4 THEN 4 ELSE d - 4

\* the three bands of a call are the words within 0.5 of their targets, the
\* difficulty of a word being given by difficulty_of
BandsByDistance(difficulty_of(_)) ==
    \A word \in arg.words :
        /\ word \in current_range(arg.words, arg.d) <=>
               Distance(difficulty_of(word), arg.d) <= 2
        /\ word \in higher_range(arg.words, arg.d) <=>
               Distance(difficulty_of(word), HigherTarget(arg.d)) <= 2
        /\ word \in lower_range(arg.words, arg.d) <=>
               Distance(difficulty_of(word), LowerTarget(arg.d)) <= 2

\* the difficulty score a word carries
ScoreOf(word) == word.difficulty
\* the difficulty score a word carries, 2.0 when it carries none
ScoreOrDefault(word) == IF word.difficulty = NoDifficulty THEN 8 ELSE word.difficulty

\* at 5.0 the higher band is the current band, at 1.0 the lower band is
BandsOverlap ==
    /\ arg.d = 20 => higher_range(arg.words, arg.d) = current_range(arg.words, arg.d)
    /\ arg.d = 4 => lower_range(arg.words, arg.d) = current_range(arg.words, arg.d)

\* C22 as claimed: for every item (that carries a difficulty) and every d in
\* [1.0, 5.0], the item is in the current, higher or lower band iff its
\* difficulty is within 0.5 of d, of min(5.0, d + 1.0), of max(1.0, d - 1.0).
C22_BandsByDistance ==
    (arg.op = "select" /\ ret.done /\ \A word \in arg.words : word.difficulty # NoDifficulty) =>
        (BandsByDistance(ScoreOf) /\ BandsOverlap)

\* C22 as amended: the same for calls in which every item has a difficulty in
\* [1.0, 5.0] or none, an item without a difficulty counting as 2.0.
C22_BandsByDistanceInRange ==
    (arg.op = "select" /\ ret.done
        /\ \A word \in arg.words : ScoreOrDefault(word) \in 4..20) =>
        (BandsByDistance(ScoreOrDefault) /\ BandsOverlap)

\* at 5.0, with words of 4.0 and 5.0 and one without a difficulty: the
\* current and the higher band are the word of 5.0, the lower band the one of 4.0
C22_Witness ==
    /\ arg.op = "select" /\ ret.done /\ arg.d = 20
    /\ {word.difficulty : word \in arg.words} = {16, 20, NoDifficulty}
    /\ {word.difficulty : word \in current_range(arg.words, arg.d)} = {20}
    /\ {word.difficulty : word \in higher_range(arg.words, arg.d)} = {20}
    /\ {word.difficulty : word \in lower_range(arg.words, arg.d)} = {16}

\* C23: reset_used_words for one catalog empties that catalog's used list and
\* leaves the other catalog's list, the difficulty, the send log, the
\* adjustment log and the success count as they were; a word type other than
\* 'verbs' and 'adjectives' raises an error and nothing is written.
C23_ResetKeepsTheRest ==
    (arg.op = "reset" /\ ret.done /\ arg.old.fstate = "ok") =>
        LET old == arg.old.history
        IN  /\ arg.word_type = "verbs" =>
                   /\ ret.raised = "none" /\ fstate = "ok"
                   /\ history = [old EXCEPT !.used_verbs = <<>>]
                   /\ history.used_adjectives = old.used_adjectives
            /\ arg.word_type = "adjectives" =>
                   /\ ret.raised = "none" /\ fstate = "ok"
                   /\ history = [old EXCEPT !.used_adjectives = <<>>]
                   /\ history.used_verbs = old.used_verbs
            /\ arg.word_type \notin {"verbs", "adjectives"} =>
                   (ret.raised = "ValueError" /\ Snapshot = arg.old)

\* the verbs of a history with a send log, an adjustment and used adjectives
\* have been reset
C23_Witness ==
    /\ arg.op = "reset" /\ ret.done /\ arg.word_type = "verbs"
    /\ arg.old.history.used_verbs = <<1, 2, 3>>
    /\ history.used_verbs = <<>>
    /\ history.used_adjectives = <<11, 12>>
    /\ history.current_difficulty_level = 10
    /\ Len(history.sent_emails) = 1 /\ Len(history.difficulty_adjustments) = 1

\* the subject of a message holds 'daily spanish' or 're:'
SubjectMatches(message) == message.daily_spanish \/ message.re

\* the last message of the mailbox the checks run over
MostRecent == arg.mailbox[Len(arg.mailbox)]

ReplyWithKeyword ==
    /\ arg.mailbox # <<>>
    /\ SubjectMatches(MostRecent)
    /\ BodyMatching[MostRecent.body] # {}

\* C27: feedback is not deduplicated: over an unchanged mailbox whose latest
\* reply holds a keyword, every check that reaches the history applies the
\* adjustment and appends a log entry, so after k checks the log has k
\* entries of that keyword, each starting from the level the one before it
\* left, and the difficulty is the clamped sum applied k times.
C27_FeedbackAppliedEveryCheck ==
    (arg.op = "mailbox" /\ ReplyWithKeyword) =>
        LET log == history.difficulty_adjustments
            keyword == ClaimedOrder[CHOOSE i \in BodyMatching[MostRecent.body] :
                                       \A k \in BodyMatching[MostRecent.body] : i <= k]
        IN  /\ Len(log) = clock
            /\ (fb.pc = "done" /\ fb.raised = "none") =>
                   (fb.found /\ fb.writes = 1
                       /\ Len(log) = Len(fb.before.history.difficulty_adjustments) + 1)
            /\ \A i \in 1..Len(log) :
                   /\ log[i].feedback = keyword
                   /\ log[i].new_level = Clamped(log[i].old_level + FamilyAdjustment(keyword))
                   /\ i > 1 => log[i].old_level = log[i - 1].new_level
            /\ log # <<>> => history.current_difficulty_level = log[Len(log)].new_level

\* three checks over the one reply "This was too hard for me", from 2.0:
\* 1.5, 1.0, and 1.0 again
C27_Witness ==
    /\ arg.op = "mailbox" /\ arg.mailbox = <<[daily_spanish |-> FALSE, re |-> TRUE,
                                               body |-> TooHardText]>>
    /\ fb.pc = "done" /\ fb.found
    /\ Len(history.difficulty_adjustments) = 3
    /\ history.difficulty_adjustments[1].old_level = 8
    /\ history.difficulty_adjustments[2].old_level = 6
    /\ history.difficulty_adjustments[3].old_level = 4
    /\ history.current_difficulty_level = 4

RECURSIVE Doubled(_, _)
\* a delay doubled k times
Doubled(delay, k) == IF k = 0 THEN delay ELSE 2 * Doubled(delay, k - 1)

\* C25: create_smtp_connection makes at most retries attempts: it returns the
\* connection of the first attempt that succeeds and makes no further one,
\* sleeps (the delay doubled each time) only after a failed attempt that is
\* not the last, and after the last failed attempt raises that failure again,
\* which send_daily_email turns into False.
C25_BoundedRetries ==
    /\ [](arg.op = "smtp" =>
             /\ ret.attempts <= arg.retries
             /\ Len(ret.sleeps) <= ret.attempts
             /\ \A i \in 1..Len(ret.sleeps) : ret.sleeps[i] = Doubled(arg.delay, i - 1)
             /\ ret.result = "none" => Len(ret.sleeps) = ret.attempts
             /\ ret.result = "connected" => Len(ret.sleeps) = ret.attempts - 1
             /\ ret.result = "raised" =>
                    /\ ret.attempts = arg.retries
                    /\ Len(ret.sleeps) = arg.retries - 1
                    /\ ret.raised \in {"SMTPException", "OSError"}
                    /\ ret.done => ret.sent = "False"
             /\ ret.result = "returned None" => arg.retries = 0
             /\ ret.sent = "True" => ret.result = "connected")
    /\ [][(arg.op = "smtp" /\ ret.result # "none") =>
             (ret'.attempts = ret.attempts /\ ret'.sleeps = ret.sleeps
                 /\ ret'.result = ret.result)]_vars

\* the default call: three attempts failed, two sleeps of 5 and 10 seconds,
\* the third failure raised and reported as False
C25_Witness ==
    /\ arg.op = "smtp" /\ arg.retries = DEFAULT_RETRIES /\ arg.delay = DEFAULT_DELAY
    /\ ret.result = "raised" /\ ret.attempts = 3
    /\ ret.sleeps = <<5, 10>>
    /\ ret.done /\ ret.sent = "False"

\* C26: a dry run (--dry-run) never modifies the persisted history document,
\* whatever the starting history, a history in which every item of a catalog
\* is used included: at every step of the run and at its end the document is
\* the one the run found, so no reset is persisted by a run that sends nothing.
C26_DryRunLeavesHistory ==
    (send.dry_run /\ send.pc # "idle") => Snapshot = send.before

\* C28: from the default state and a fixed catalog, after any sequence of send
\* cycles, resets and feedback cycles, each used-ID list holds no ID twice
\* and only IDs of items of its own catalog.
C28_UsedListsWellFormed ==
    fstate = "ok" =>
        /\ NoDuplicates(history.used_verbs)
        /\ Range(history.used_verbs) \subseteq Ids(all_verbs)
        /\ NoDuplicates(history.used_adjectives)
        /\ Range(history.used_adjectives) \subseteq Ids(all_adjectives)

\* four deliveries and an accepted feedback: both lists were reset on the way
\* (three verbs, two adjectives) and are filling again
C28_Witness ==
    /\ fstate = "ok"
    /\ history.total_emails_sent = 4
    /\ Len(history.used_verbs) = 1 /\ Len(history.used_adjectives) = 2
    /\ Len(history.difficulty_adjustments) = 1
    /\ send.pc = "done" /\ send.outcome = "sent" /\ send.verb_reset

\* the positions of the send log that record a success
Successes(log) == {i \in 1..Len(log) : log[i].success}

\* C29: from the default state, after any sequence of single-process send and
\* feedback cycles, total_emails_sent is the number of send-log entries with
\* success = true, and no entry with success = false is ever in the log: a
\* send run whose delivery failed leaves the log as it found it.
C29_CountMatchesLog ==
    /\ history.total_emails_sent = Cardinality(Successes(history.sent_emails))
    /\ \A i \in 1..Len(history.sent_emails) : history.sent_emails[i].success
    /\ (send.pc = "done" /\ send.outcome = "send_failed") =>
           DocumentOf(Snapshot).sent_emails = DocumentOf(send.before).sent_emails

\* two deliveries are logged and counted, a third one has just failed
C29_Witness ==
    /\ fstate = "ok"
    /\ history.total_emails_sent = 2 /\ Len(history.sent_emails) = 2
    /\ send.pc = "done" /\ send.outcome = "send_failed"
    /\ Len(history.difficulty_adjustments) = 1

\* the level an adjustment-log entry starts from if the log is a chain
ChainedFrom(log, i) == IF i = 1 THEN DEFAULT_LEVEL ELSE log[i - 1].new_level

\* C30: from the default state, after any sequence of single-process send and
\* feedback cycles, the adjustment log is a consistent chain: every entry's
\* new level is clamp(old level + adjustment of its keyword, 1.0, 5.0), its
\* old level is the new level of the entry before (2.0 for the first), and
\* the persisted difficulty is the last entry's new level (2.0 without an
\* entry); no write of a send cycle or of a reset changes the difficulty or
\* the adjustment log.
C30_AdjustmentLogIsChain ==
    /\ [](LET log == history.difficulty_adjustments
          IN  /\ \A i \in 1..Len(log) :
                     /\ log[i].new_level =
                            Clamped(log[i].old_level + FamilyAdjustment(log[i].feedback))
                     /\ log[i].old_level = ChainedFrom(log, i)
              /\ history.current_difficulty_level = ChainedFrom(log, Len(log) + 1))
    /\ [][SendWrites =>
             /\ history'.current_difficulty_level = history.current_difficulty_level
             /\ history'.difficulty_adjustments = history.difficulty_adjustments]_vars

\* three hard-family events between deliveries and resets: 2.0, 1.5, 1.0 and,
\* clamped, 1.0 again
C30_Witness ==
    LET log == history.difficulty_adjustments
    IN  /\ Len(log) = 3
        /\ log[3].old_level = MIN_LEVEL /\ log[3].new_level = MIN_LEVEL
        /\ log[3].feedback \in HardFamily
        /\ history.total_emails_sent >= 2
        /\ send.pc = "done" /\ send.outcome = "sent" /\ send.verb_reset

====
